---- MODULE Spec2Model ----
(***************************************************************************)
(* Model of crts_export.py: the ChameleonRT scene exporter.                *)
(*                                                                         *)
(* export_crts validates the meshes, plans one buffer view per payload     *)
(* block (write_mesh_info, write_image_info), walks materials and objects  *)
(* (write_material_info, write_object_info), then opens the output file    *)
(* and writes the header followed by the mesh and image payloads.          *)
(*                                                                         *)
(* Indices that the program stores (view indices, loop indices, record     *)
(* indices, unique-vertex ids) keep their 0-based Python values; At(s, i)  *)
(* reads the i-th element of a Python list modelled as a TLA+ sequence.    *)
(***************************************************************************)
EXTENDS Integers, Sequences, FiniteSets, TLC

VARIABLES scene, pc, i, header, byte_offset, mesh_indices, image_indices,
          material_indices, f, result, view_src

vars == <<scene, pc, i, header, byte_offset, mesh_indices, image_indices,
          material_indices, f, result, view_src>>

-----------------------------------------------------------------------------
(* Bounds of the enumerated scenes.                                        *)

MaxTris == 2
MaxMeshes == 2
MaxImages == 2
MaxMaterials == 1
MaxObjects == 1

-----------------------------------------------------------------------------
(* Python values.                                                          *)

\* None, where the other values are records; NoError where they are strings.
None == [none |-> TRUE]

NoError == "no exception"

Running == "running"

At(s, k) == s[k + 1]

\* A dict is a function; d[k] = v adds or replaces one entry.
EmptyDict == [k \in {} |-> 0]

DictSet(d, k, v) == [x \in (DOMAIN d) \cup {k} |-> IF x = k THEN v ELSE d[x]]

\* Floats are modelled by their bit patterns.  0.0 and -0.0 are different
\* patterns that Python compares (and hashes) as equal, so a tuple of floats
\* used as a dict key finds an entry stored under the other zero.
PosZero == "0.0"
NegZero == "-0.0"
One == "1.0"
Half == "0.5"

FloatKeyBits(x) == x

\* The equivalence class of a float under Python's hash and ==.
FloatKey(x) == IF x = NegZero THEN PosZero ELSE x

TupleKeyFirst(t) == <<FloatKey(t[1])>>

\* A tuple of floats as a dict key: (uv[0], uv[1]), (n[0], n[1], n[2]).
TupleKey(t) == [k \in DOMAIN t |-> FloatKey(t[k])]

-----------------------------------------------------------------------------
(* compute_mesh_buffer_sizes: the unique-vertex count of a mesh, and from  *)
(* it the byte sizes of the four blocks.                                   *)

\* The loop indices visited by "for t in mesh.loop_triangles: for l in t.loops".
RECURSIVE Corners(_)
Corners(tris) ==
    IF tris = <<>> THEN <<>> ELSE Head(tris) \o Corners(Tail(tris))

\* "if key not in d: d[key] = l; idx = l  else: idx = d[key]"
Representative(d, key, l) == IF key \notin DOMAIN d THEN l ELSE d[key]

Remember(d, key, l) == IF key \notin DOMAIN d THEN DictSet(d, key, l) ELSE d

VertexKey(vert_idx, uv_idx, n_idx) == <<vert_idx, uv_idx, n_idx>>

\* One pass of the loop body of compute_mesh_buffer_sizes for loop l.
SizesCorner(mesh, st, l) ==
    LET vert_idx == At(mesh.loops, l).vertex_index
        has_uv   == mesh.uv_layers > 0
        uv       == TupleKey(At(mesh.uv_data, l))
        uv_idx   == IF has_uv THEN Representative(st.uvs, uv, l) ELSE -1
        uvs1     == IF has_uv THEN Remember(st.uvs, uv, l) ELSE st.uvs
        normal   == TupleKey(At(mesh.loops, l).normal)
        n_idx    == Representative(st.normals, normal, l)
        idx      == VertexKey(vert_idx, uv_idx, n_idx)
    IN  [unique_verts |->
            IF idx \notin DOMAIN st.unique_verts
            THEN DictSet(st.unique_verts, idx, Cardinality(DOMAIN st.unique_verts))
            ELSE st.unique_verts,
         uvs     |-> uvs1,
         normals |-> Remember(st.normals, normal, l)]

RECURSIVE SizesLoop(_, _, _)
SizesLoop(mesh, st, corners) ==
    IF corners = <<>> THEN st
    ELSE SizesLoop(mesh, SizesCorner(mesh, st, Head(corners)), Tail(corners))

compute_mesh_buffer_sizes_short_indices(mesh) ==
    LET st == SizesLoop(mesh,
                  [unique_verts |-> EmptyDict, uvs |-> EmptyDict, normals |-> EmptyDict],
                  Corners(mesh.loop_triangles))
        n_verts == Cardinality(DOMAIN st.unique_verts)
    IN  <<n_verts * 3 * 4, Len(mesh.loop_triangles) * 4,
          IF Cardinality(DOMAIN st.uvs) > 0 THEN n_verts * 2 * 4 ELSE 0,
          n_verts * 3 * 4>>

compute_mesh_buffer_sizes_wide_uvs(mesh) ==
    LET st == SizesLoop(mesh,
                  [unique_verts |-> EmptyDict, uvs |-> EmptyDict, normals |-> EmptyDict],
                  Corners(mesh.loop_triangles))
        n_verts == Cardinality(DOMAIN st.unique_verts)
    IN  <<n_verts * 3 * 4, Len(mesh.loop_triangles) * 3 * 4,
          IF Cardinality(DOMAIN st.uvs) > 0 THEN n_verts * 3 * 4 ELSE 0,
          n_verts * 3 * 4>>

\* (verts_size, indices_size, uvs_size, normals_size)
compute_mesh_buffer_sizes(mesh) ==
    LET st == SizesLoop(mesh,
                  [unique_verts |-> EmptyDict, uvs |-> EmptyDict, normals |-> EmptyDict],
                  Corners(mesh.loop_triangles))
        n_verts == Cardinality(DOMAIN st.unique_verts)
        uvs_size == IF Cardinality(DOMAIN st.uvs) > 0 THEN n_verts * 2 * 4 ELSE 0
    IN  <<n_verts * 3 * 4, Len(mesh.loop_triangles) * 3 * 4, uvs_size, n_verts * 3 * 4>>

-----------------------------------------------------------------------------
(* write_mesh_buffers: the unique-vertex list and the index buffer of a    *)
(* mesh, packed as four blocks.  A block is the list of packed elements    *)
(* with the byte size of one element; src names the block.                 *)

\* One pass of the loop body of write_mesh_buffers for loop l.
BuffersCorner(mesh, st, l) ==
    LET vert_idx == At(mesh.loops, l).vertex_index
        has_uv   == mesh.uv_layers > 0
        uv       == TupleKey(At(mesh.uv_data, l))
        uv_idx   == IF has_uv THEN Representative(st.uvs, uv, l) ELSE -1
        uvs1     == IF has_uv THEN Remember(st.uvs, uv, l) ELSE st.uvs
        normal   == TupleKey(At(mesh.loops, l).normal)
        n_idx    == Representative(st.normals, normal, l)
        idx      == VertexKey(vert_idx, uv_idx, n_idx)
        fresh    == idx \notin DOMAIN st.unique_verts
        vid      == IF fresh THEN Len(st.vertex_list) ELSE st.unique_verts[idx]
    IN  [unique_verts   |-> IF fresh THEN DictSet(st.unique_verts, idx, vid)
                            ELSE st.unique_verts,
         vertex_list    |-> IF fresh THEN Append(st.vertex_list, idx)
                            ELSE st.vertex_list,
         vertex_indices |-> Append(st.vertex_indices, vid),
         uvs            |-> uvs1,
         normals        |-> Remember(st.normals, normal, l)]

RECURSIVE BuffersLoop(_, _, _)
BuffersLoop(mesh, st, corners) ==
    IF corners = <<>> THEN st
    ELSE BuffersLoop(mesh, BuffersCorner(mesh, st, Head(corners)), Tail(corners))

Block(src, elem_size, data) == [src |-> src, elem_size |-> elem_size, data |-> data]

BlockBytes(b) == Len(b.data) * b.elem_size

\* The blocks appended to output, in order.
write_mesh_buffers(mesh) ==
    LET st == BuffersLoop(mesh,
                  [unique_verts |-> EmptyDict, vertex_list |-> <<>>,
                   vertex_indices |-> <<>>, uvs |-> EmptyDict, normals |-> EmptyDict],
                  Corners(mesh.loop_triangles))
        vl == st.vertex_list
        positions == Block(<<mesh.name, "positions">>, 12,
                         [k \in 1..Len(vl) |-> At(mesh.vertices, vl[k][1])])
        indices   == Block(<<mesh.name, "indices">>, 4, st.vertex_indices)
        texcoords == Block(<<mesh.name, "texcoords">>, 8,
                         [k \in 1..Len(vl) |-> At(mesh.uv_data, vl[k][2])])
        normals   == Block(<<mesh.name, "normals">>, 12,
                         [k \in 1..Len(vl) |-> At(mesh.loops, vl[k][3]).normal])
    IN  IF mesh.uv_layers > 0
        THEN <<positions, indices, texcoords, normals>>
        ELSE <<positions, indices, normals>>

-----------------------------------------------------------------------------
(* write_mesh_info and write_image_info: the buffer-view planner.          *)

NextOffsetStale(offset, size) == offset

\* "byte_offset += size"
NextOffset(offset, size) == offset + size

View(offset, length, type) ==
    [byte_offset |-> offset, byte_length |-> length, type |-> type]

UnusedNever(data) == FALSE

\* "if x.users == 0: continue"
Unused(data) == data.users = 0

\* One pass of the loop body of write_mesh_info for one mesh.  p holds header,
\* byte_offset, mesh_indices and view_src; view_src names, for each view appended,
\* the block it was planned for (history only: the program does not store it).
mesh_info_step(p, mesh) ==
    IF Unused(mesh) THEN p
    ELSE
    LET sizes          == compute_mesh_buffer_sizes(mesh)
        verts_size     == sizes[1]
        indices_size   == sizes[2]
        uvs_size       == sizes[3]
        normals_size   == sizes[4]
        positions_view == Len(p.header.buffer_views)
        views1  == Append(p.header.buffer_views, View(p.byte_offset, verts_size, "VEC3_F32"))
        src1    == Append(p.view_src, <<mesh.name, "positions">>)
        off1    == NextOffset(p.byte_offset, verts_size)
        indices_view == positions_view + 1
        views2  == Append(views1, View(off1, indices_size, "VEC3_U32"))
        src2    == Append(src1, <<mesh.name, "indices">>)
        off2    == NextOffset(off1, indices_size)
        uvs_view == IF uvs_size > 0 THEN indices_view + 1 ELSE -1
        views3  == IF uvs_size > 0
                   THEN Append(views2, View(off2, uvs_size, "VEC2_F32")) ELSE views2
        src3    == IF uvs_size > 0
                   THEN Append(src2, <<mesh.name, "texcoords">>) ELSE src2
        off3    == IF uvs_size > 0 THEN NextOffset(off2, uvs_size) ELSE off2
        normals_view == IF normals_size > 0 THEN uvs_view + 1 ELSE -1
        views4  == IF normals_size > 0
                   THEN Append(views3, View(off3, normals_size, "VEC3_F32")) ELSE views3
        src4    == IF normals_size > 0
                   THEN Append(src3, <<mesh.name, "normals">>) ELSE src3
        off4    == IF normals_size > 0 THEN NextOffset(off3, normals_size) ELSE off3
        info0   == [name |-> mesh.name, positions |-> positions_view,
                    indices |-> indices_view]
        info1   == IF uvs_view # -1 THEN DictSet(info0, "texcoords", uvs_view) ELSE info0
        mesh_info == IF normals_view # -1 THEN DictSet(info1, "normals", normals_view)
                     ELSE info1
    IN  [header       |-> [p.header EXCEPT !.buffer_views = views4,
                                           !.meshes = Append(@, mesh_info)],
         byte_offset  |-> off4,
         indices      |-> DictSet(p.indices, mesh.name, Len(p.header.meshes)),
         view_src     |-> src4]

\* os.path.isfile(img.filepath_from_user())
IsFile(img) == img.filepath # "" /\ img.on_disk

\* The images write_image_info skips after the users test.
image_skipped(img) ==
    \/ img.source # "FILE"
    \/ img.packed_file = None /\ ~IsFile(img)

\* One pass of the loop body of write_image_info for one image.
image_info_step(p, img) ==
    IF Unused(img) \/ image_skipped(img) THEN p
    ELSE
    LET img_bytes == IF img.packed_file # None THEN img.packed_file.size
                     ELSE img.file_size
        view == Len(p.header.buffer_views)
        color_space == IF img.colorspace # "sRGB" THEN "LINEAR" ELSE "sRGB"
    IN  [header       |-> [p.header EXCEPT
                             !.buffer_views = Append(@, View(p.byte_offset, img_bytes, "UINT_8")),
                             !.images = Append(@, [name |-> img.name, view |-> view,
                                                   type |-> img.file_format,
                                                   color_space |-> color_space])],
         byte_offset  |-> NextOffset(p.byte_offset, img_bytes),
         indices      |-> DictSet(p.indices, img.name, Len(p.header.images)),
         view_src     |-> Append(p.view_src, <<img.name, "image">>)]

\* The bytes of an image, each named by the image and its position.
ImageBytes(img, n) == [k \in 1..n |-> <<img.name, k>>]

\* One pass of the image loop of export_crts: what f.write receives, if anything.
image_buffers(img) ==
    IF Unused(img) THEN <<>>
    ELSE IF img.packed_file # None
         THEN <<Block(<<img.name, "image">>, 1, ImageBytes(img, img.packed_file.size))>>
    ELSE IF img.filepath # "" /\ IsFile(img)
         THEN <<Block(<<img.name, "image">>, 1, ImageBytes(img, img.file_size))>>
    ELSE <<>>

\* One pass of the mesh loop of export_crts.
mesh_buffers(mesh) == IF Unused(mesh) THEN <<>> ELSE write_mesh_buffers(mesh)

-----------------------------------------------------------------------------
(* write_material_info and write_object_info: the scene graph walker.      *)

export_param_list ==
    {"Metallic", "Specular", "Specular Tint", "Roughness", "Anisotropic", "Sheen",
     "Sheen Tint", "Clearcoat", "Clearcoat Roughness", "IOR", "Transmission"}

\* i.name.lower().replace(" ", "_")
json_name(name) ==
    CASE name = "Metallic"            -> "metallic"
      [] name = "Specular"            -> "specular"
      [] name = "Specular Tint"       -> "specular_tint"
      [] name = "Roughness"           -> "roughness"
      [] name = "Anisotropic"         -> "anisotropic"
      [] name = "Sheen"               -> "sheen"
      [] name = "Sheen Tint"          -> "sheen_tint"
      [] name = "Clearcoat"           -> "clearcoat"
      [] name = "Clearcoat Roughness" -> "clearcoat_roughness"
      [] name = "IOR"                 -> "ior"
      [] name = "Transmission"        -> "transmission"

\* json_name + "_texture"
texture_name(name) ==
    CASE name = "Metallic"            -> "metallic_texture"
      [] name = "Specular"            -> "specular_texture"
      [] name = "Specular Tint"       -> "specular_tint_texture"
      [] name = "Roughness"           -> "roughness_texture"
      [] name = "Anisotropic"         -> "anisotropic_texture"
      [] name = "Sheen"               -> "sheen_texture"
      [] name = "Sheen Tint"          -> "sheen_tint_texture"
      [] name = "Clearcoat"           -> "clearcoat_texture"
      [] name = "Clearcoat Roughness" -> "clearcoat_roughness_texture"
      [] name = "IOR"                 -> "ior_texture"
      [] name = "Transmission"        -> "transmission_texture"

\* None, or (image, channel) as a record
get_seprgb_texture_info(link) ==
    IF link.from_node.type # "SEPRGB" THEN None
    ELSE LET name == link.from_socket.name
             channel == IF name = "R" THEN 0 ELSE IF name = "G" THEN 1 ELSE 2
         IN  [image |-> link.from_node.inputs.Image.links[1].from_node.image,
              channel |-> channel]

\* The first BSDF_PRINCIPLED node of the material's node tree, or None.
RECURSIVE FirstPrincipled(_)
FirstPrincipled(nodes) ==
    IF nodes = <<>> THEN None
    ELSE IF Head(nodes).type = "BSDF_PRINCIPLED" THEN Head(nodes)
    ELSE FirstPrincipled(Tail(nodes))

principled_node_of(m) ==
    IF m.node_tree = None THEN None ELSE FirstPrincipled(m.node_tree.nodes)

\* One pass of "for i in principled_node.inputs".  acc holds the record mat and
\* the exception raised so far.
material_input_step(acc, inp, images) ==
    IF acc.raised # NoError THEN acc
    ELSE IF inp.name = "Base Color" THEN
        LET mat1 == DictSet(acc.mat, "base_color", SubSeq(inp.default_value, 1, 3))
            link == inp.links[1]
            texture == link.from_node
        IN  IF Len(inp.links) = 0 THEN [acc EXCEPT !.mat = mat1]
            ELSE IF texture.type # "TEX_IMAGE" \/ link.from_socket.type # "RGBA"
                 THEN [acc EXCEPT !.mat = mat1]
            ELSE IF texture.image.name \in DOMAIN images
                 THEN [acc EXCEPT !.mat = DictSet(mat1, "base_color_texture",
                                                  images[texture.image.name])]
            ELSE [acc EXCEPT !.mat = mat1]
    ELSE IF inp.name \in export_param_list THEN
        LET mat1 == DictSet(acc.mat, json_name(inp.name), inp.default_value)
            tex_info == get_seprgb_texture_info(inp.links[1])
        IN  IF Len(inp.links) = 0 THEN [acc EXCEPT !.mat = mat1]
            ELSE IF tex_info = None THEN [acc EXCEPT !.mat = mat1]
            ELSE IF tex_info.image.name \notin DOMAIN images
                 THEN [acc EXCEPT !.mat = mat1, !.raised = "KeyError"]
            ELSE [acc EXCEPT !.mat = DictSet(mat1, texture_name(inp.name),
                                  [texture |-> images[tex_info.image.name],
                                   channel |-> tex_info.channel])]
    ELSE acc

RECURSIVE MaterialInputs(_, _, _)
MaterialInputs(acc, inputs, images) ==
    IF inputs = <<>> THEN acc
    ELSE MaterialInputs(material_input_step(acc, Head(inputs), images), Tail(inputs), images)

\* One pass of the loop body of write_material_info for one material.  p holds
\* header, material_indices and the exception raised.
material_info_step(p, m, images) ==
    IF Unused(m) \/ principled_node_of(m) = None THEN p
    ELSE
    LET acc == MaterialInputs([mat |-> [name |-> m.name], raised |-> NoError],
                              principled_node_of(m).inputs, images)
    IN  IF acc.raised # NoError
        THEN [p EXCEPT !.raised = acc.raised,
                       !.indices = DictSet(p.indices, m.name, Len(p.header.materials))]
        ELSE [header  |-> [p.header EXCEPT !.materials = Append(@, acc.mat)],
              indices |-> DictSet(p.indices, m.name, Len(p.header.materials)),
              raised  |-> NoError]

Identity4 == <<<<1, 0, 0, 0>>, <<0, 1, 0, 0>>, <<0, 0, 1, 0>>, <<0, 0, 0, 1>>>>

\* mathutils.Matrix.Rotation(math.radians(-90), 4, "X"), cos and sin exact
RotationX == <<<<1, 0, 0, 0>>, <<0, 0, 1, 0>>, <<0, -1, 0, 0>>, <<0, 0, 0, 1>>>>

MatMul(a, b) ==
    [r \in 1..4 |-> [c \in 1..4 |->
        a[r][1] * b[1][c] + a[r][2] * b[2][c] + a[r][3] * b[3][c] + a[r][4] * b[4][c]]]

Transposed(a) == [r \in 1..4 |-> [c \in 1..4 |-> a[c][r]]]

\* The 16 values of obj_data["matrix"].
matrix_of(o) ==
    LET tfm == Transposed(MatMul(RotationX, o.matrix_world))
    IN  tfm[1] \o tfm[2] \o tfm[3] \o tfm[4]

\* math.degrees(cam.angle_y), for the angles of the enumerated cameras
degrees(angle) == CASE angle = "pi/2" -> 90 [] angle = "pi/4" -> 45

\* One pass of the loop body of write_object_info for one object.  p holds
\* header and the exception raised.
object_info_step(p, o, materials, meshes) ==
    LET obj_data == [name |-> o.name, type |-> o.type, matrix |-> matrix_of(o)]
    IN  IF o.type = "MESH" THEN
            IF o.active_material # None /\ o.active_material.name \notin DOMAIN materials
            THEN [p EXCEPT !.raised = "KeyError"]
            ELSE IF o.data.name \notin DOMAIN meshes
            THEN [p EXCEPT !.raised = "KeyError"]
            ELSE LET mat_id == IF o.active_material # None
                               THEN materials[o.active_material.name] ELSE -1
                     rec == DictSet(DictSet(obj_data, "material", mat_id),
                                    "mesh", meshes[o.data.name])
                 IN  [p EXCEPT !.header.objects = Append(@, rec)]
        ELSE IF o.type = "LIGHT" THEN
            LET light == o.data
                rec == DictSet(DictSet(DictSet(obj_data,
                           "color", <<light.color.r, light.color.g, light.color.b>>),
                           "energy", light.energy \div (light.size * light.size_y)),
                           "size", <<light.size, light.size_y>>)
            IN  [p EXCEPT !.header.objects = Append(@, rec)]
        ELSE IF o.type = "CAMERA" THEN
            [p EXCEPT !.header.objects =
                 Append(@, DictSet(obj_data, "fov_y", degrees(o.data.angle_y)))]
        ELSE p

-----------------------------------------------------------------------------
(* The scenes the export is run on: bpy.data.meshes, bpy.data.images,      *)
(* bpy.data.materials and scene.objects.  Names are unique per kind, as    *)
(* Blender keeps them; whatever an object or a node refers to has users.   *)

\* mesh.vertices[k].co
Vertices == <<<<PosZero, PosZero, PosZero>>, <<One, PosZero, PosZero>>>>

UvA  == <<PosZero, PosZero>>
UvAn == <<NegZero, PosZero>>
UvB  == <<PosZero, One>>
NrmA  == <<PosZero, PosZero, One>>
NrmAn == <<NegZero, PosZero, One>>
NrmB  == <<PosZero, One, PosZero>>

Corner(v, uv, n) == [vertex_index |-> v, uv |-> uv, normal |-> n]

\* Per-loop attributes of the enumerated meshes: equal corners, corners that
\* differ in one component, and corners that differ only in the sign of a zero
\* (of a uv where there is a uv layer, of a normal where there is none).
LoopKinds ==
    {Corner(0, UvA, NrmA), Corner(0, UvAn, NrmA), Corner(0, UvB, NrmA),
     Corner(0, UvA, NrmB), Corner(1, UvA, NrmA)}

LoopKindsNoUv ==
    {Corner(0, UvA, NrmA), Corner(0, UvA, NrmAn), Corner(0, UvA, NrmB),
     Corner(1, UvA, NrmA)}

\* A mesh after calc_loop_triangles and calc_normals_split: a fan of ntris
\* triangles over the loops ks, with or without a uv layer.
Mesh(k, users, nmaterials, uv_layers, ks) ==
    [name           |-> <<"Mesh", k>>,
     users          |-> users,
     materials      |-> [x \in 1..nmaterials |-> <<"Material", x>>],
     uv_layers      |-> uv_layers,
     vertices       |-> Vertices,
     loops          |-> [x \in 1..Len(ks) |->
                            [vertex_index |-> ks[x].vertex_index, normal |-> ks[x].normal]],
     uv_data        |-> IF uv_layers > 0 THEN [x \in 1..Len(ks) |-> ks[x].uv] ELSE <<>>,
     loop_triangles |-> [t \in 1..(IF Len(ks) < 3 THEN 0 ELSE Len(ks) - 2) |->
                            <<0, t, t + 1>>]]

Tri1 == <<Corner(0, UvA, NrmA), Corner(0, UvAn, NrmA), Corner(1, UvB, NrmA)>>

\* Every mesh of 0..MaxTris triangles over the loop kinds.
GeomShapes ==
    UNION {[1..(IF t = 0 THEN 0 ELSE t + 2) -> LoopKinds] : t \in 0..MaxTris}

GeomShapesNoUv ==
    UNION {[1..(IF t = 0 THEN 0 ELSE t + 2) -> LoopKindsNoUv] : t \in 0..MaxTris}

Image(k, users, source, packed_size, filepath, on_disk, colorspace) ==
    [name        |-> <<"Image", k>>,
     users       |-> users,
     source      |-> source,
     packed_file |-> IF packed_size = 0 THEN None ELSE [size |-> packed_size],
     filepath    |-> filepath,
     on_disk     |-> on_disk,
     file_size   |-> 2,
     file_format |-> "PNG",
     colorspace  |-> colorspace]

\* The kinds of mesh and image of the layout scenes, numbered.
LayoutMesh(k, kind) ==
    CASE kind = 1 -> Mesh(k, 1, 1, 0, Tri1)
      [] kind = 2 -> Mesh(k, 1, 1, 1, Tri1)
      [] kind = 3 -> Mesh(k, 1, 0, 1, <<>>)
      [] kind = 4 -> Mesh(k, 0, 1, 1, Tri1)

LayoutMeshKinds == 1..4

LayoutImage(k, kind) ==
    CASE kind = 1 -> Image(k, 1, "FILE", 1, "", FALSE, "sRGB")
      [] kind = 2 -> Image(k, 1, "FILE", 0, "//tex.png", TRUE, "Non-Color")
      [] kind = 3 -> Image(k, 1, "FILE", 0, "//gone.png", FALSE, "sRGB")
      [] kind = 4 -> Image(k, 1, "MOVIE", 0, "//clip.mp4", TRUE, "sRGB")
      [] kind = 5 -> Image(k, 0, "FILE", 1, "", FALSE, "sRGB")

LayoutImageKinds == 1..5

SeqsUpTo(S, n) == UNION {[1..k -> S] : k \in 0..n}

NoWalk(meshes, images) ==
    [meshes |-> meshes, images |-> images, materials |-> <<>>, objects |-> <<>>]

\* Scenes of meshes of every kind in every order, before no image, an exported
\* image, an image that is not file-backed, or an unused and an exported image;
\* and scenes of images of every kind in every order, after no mesh, a used
\* mesh or an unused mesh.
LayoutScenes ==
    {NoWalk([k \in DOMAIN ms |-> LayoutMesh(k, ms[k])],
            [k \in DOMAIN is |-> LayoutImage(k, is[k])]) :
        ms \in SeqsUpTo(LayoutMeshKinds, MaxMeshes),
        is \in {<<>>, <<1>>, <<4>>, <<5, 1>>}}
    \cup
    {NoWalk([k \in DOMAIN ms |-> LayoutMesh(k, ms[k])],
            [k \in DOMAIN is |-> LayoutImage(k, is[k])]) :
        ms \in {<<>>, <<1>>, <<4>>}, is \in SeqsUpTo(LayoutImageKinds, MaxImages)}

\* Scenes of one used mesh of every shape.
GeomScenes ==
    {NoWalk(<<Mesh(1, 1, 1, 1, ks)>>, <<>>) : ks \in GeomShapes}
    \cup {NoWalk(<<Mesh(1, 1, 1, 0, ks)>>, <<>>) : ks \in GeomShapesNoUv}

\* Scenes whose meshes have one or two materials, used or not.
ValidationMesh(k, kind) ==
    CASE kind = 1 -> Mesh(k, 1, 1, 0, Tri1)
      [] kind = 2 -> Mesh(k, 1, 2, 0, Tri1)
      [] kind = 3 -> Mesh(k, 0, 2, 0, Tri1)

ValidationScenes ==
    {NoWalk([k \in DOMAIN ms |-> ValidationMesh(k, ms[k])],
            <<LayoutImage(1, 1)>>) : ms \in SeqsUpTo(1..3, MaxMeshes)}

\* Shader nodes and links.
TexNode(k) == [type |-> "TEX_IMAGE", image |-> [name |-> <<"Image", k>>]]

BaseTex(k) ==
    [from_node |-> TexNode(k), from_socket |-> [name |-> "Color", type |-> "RGBA"]]

BaseOther ==
    [from_node |-> [type |-> "RGB"], from_socket |-> [name |-> "Color", type |-> "RGBA"]]

SepRgb(k, channel) ==
    [from_node |-> [type |-> "SEPRGB",
                    inputs |-> [Image |-> [links |-> <<[from_node |-> TexNode(k)]>>]]],
     from_socket |-> [name |-> channel, type |-> "VALUE"]]

ScalarOther ==
    [from_node |-> [type |-> "MATH"], from_socket |-> [name |-> "Value", type |-> "VALUE"]]

Principled(base_links, rough_links) ==
    [type |-> "BSDF_PRINCIPLED",
     inputs |-> <<[name |-> "Base Color", default_value |-> <<One, Half, PosZero, One>>,
                   links |-> base_links],
                  [name |-> "Roughness", default_value |-> Half, links |-> rough_links],
                  [name |-> "Alpha", default_value |-> One, links |-> <<>>]>>]

Material(k, users, nodes) ==
    [name |-> <<"Material", k>>, users |-> users, node_tree |-> [nodes |-> nodes]]

OutputNode == [type |-> "OUTPUT_MATERIAL"]

\* The kinds of material of the walk scenes; image 1 is exported, image 2 skipped.
WalkMaterial(k, kind) ==
    CASE kind = 1  -> Material(k, 1, <<OutputNode, Principled(<<>>, <<>>)>>)
      [] kind = 2  -> Material(k, 1, <<OutputNode, Principled(<<BaseTex(1)>>, <<>>)>>)
      [] kind = 3  -> Material(k, 1, <<OutputNode, Principled(<<BaseTex(2)>>, <<>>)>>)
      [] kind = 4  -> Material(k, 1, <<OutputNode, Principled(<<BaseOther>>, <<>>)>>)
      [] kind = 5  -> Material(k, 1, <<OutputNode, Principled(<<>>, <<SepRgb(1, "G")>>)>>)
      [] kind = 6  -> Material(k, 1, <<OutputNode, Principled(<<>>, <<SepRgb(2, "R")>>)>>)
      [] kind = 7  -> Material(k, 1, <<OutputNode, Principled(<<>>, <<ScalarOther>>)>>)
      [] kind = 8  -> Material(k, 1, <<OutputNode,
                                        Principled(<<BaseTex(1)>>, <<SepRgb(1, "B")>>)>>)
      [] kind = 9  -> Material(k, 1, <<OutputNode, [type |-> "BSDF_DIFFUSE"]>>)
      [] kind = 10 -> [name |-> <<"Material", k>>, users |-> 1, node_tree |-> None]
      [] kind = 11 -> Material(k, 0, <<OutputNode, Principled(<<>>, <<>>)>>)

WalkMaterialKinds == 1..11

Object(k, type, data, active_material, matrix_world) ==
    [name |-> <<"Object", k>>, type |-> type, data |-> data,
     active_material |-> active_material, matrix_world |-> matrix_world]

Light(type) ==
    [type |-> type, color |-> [r |-> One, g |-> One, b |-> Half],
     energy |-> 8, size |-> 2, size_y |-> 2]

Translated == <<<<1, 0, 0, 1>>, <<0, 1, 0, 2>>, <<0, 0, 1, 3>>, <<0, 0, 0, 1>>>>

\* The kinds of object of the walk scenes; kind 5 + j is a mesh object whose
\* active material is material j.
WalkObject(k, kind) ==
    CASE kind = 1 -> Object(k, "LIGHT", Light("AREA"), None, Identity4)
      [] kind = 2 -> Object(k, "LIGHT", Light("POINT"), None, Identity4)
      [] kind = 3 -> Object(k, "CAMERA", [angle_y |-> "pi/4"], None, Translated)
      [] kind = 4 -> Object(k, "EMPTY", None, None, Identity4)
      [] kind = 5 -> Object(k, "MESH", [name |-> <<"Mesh", 1>>], None, Identity4)
      [] OTHER    -> Object(k, "MESH", [name |-> <<"Mesh", 1>>],
                            [name |-> <<"Material", kind - 5>>], Translated)

WalkScene(ms, os) ==
    [meshes    |-> <<LayoutMesh(1, 1)>>,
     images    |-> <<LayoutImage(1, 1), LayoutImage(2, 3)>>,
     materials |-> [k \in DOMAIN ms |-> WalkMaterial(k, ms[k])],
     objects   |-> [k \in DOMAIN os |-> WalkObject(k, os[k])]]

\* Scenes of one mesh, an exported and a skipped image, and: materials of every
\* kind under an object with no material; or objects of every kind over a
\* material with a principled node (1) and a material without one (2).
WalkScenes ==
    {WalkScene(ms, <<5>>) : ms \in SeqsUpTo(WalkMaterialKinds, MaxMaterials)}
    \cup {WalkScene(<<1, 9>>, os) : os \in SeqsUpTo(1..7, MaxObjects)}

Scenes == LayoutScenes \cup GeomScenes \cup ValidationScenes \cup WalkScenes

-----------------------------------------------------------------------------
(* export_crts, one step per loop iteration.                               *)

EmptyHeader ==
    [meshes |-> <<>>, objects |-> <<>>, buffer_views |-> <<>>, materials |-> <<>>,
     images |-> <<>>]

Init ==
    /\ scene \in Scenes
    /\ pc = "check_materials"
    /\ i = 1
    /\ header = EmptyHeader
    /\ byte_offset = 0
    /\ mesh_indices = EmptyDict
    /\ image_indices = EmptyDict
    /\ material_indices = EmptyDict
    /\ f = [opened |-> FALSE, closed |-> FALSE, header |-> None, payload |-> <<>>]
    /\ result = Running
    /\ view_src = <<>>

multiple_materials_above_two(mesh) == Len(mesh.materials) > 2

\* "if len(mesh.materials) > 1"
multiple_materials(mesh) == Len(mesh.materials) > 1

\* The validation pass: one mesh, or the end of the loop.
CheckMaterials ==
    /\ pc = "check_materials"
    /\ IF i <= Len(scene.meshes)
       THEN IF ~Unused(scene.meshes[i]) /\ multiple_materials(scene.meshes[i])
            THEN /\ result' = "CANCELLED"
                 /\ pc' = "done"
                 /\ i' = i
            ELSE /\ i' = i + 1
                 /\ UNCHANGED <<pc, result>>
       ELSE /\ pc' = "write_mesh_info"
            /\ i' = 1
            /\ result' = result
    /\ UNCHANGED <<scene, header, byte_offset, mesh_indices, image_indices,
                   material_indices, f, view_src>>

\* write_mesh_info: one mesh, or the return of (byte_offset, mesh_indices).
WriteMeshInfo ==
    /\ pc = "write_mesh_info"
    /\ IF i <= Len(scene.meshes)
       THEN LET q == mesh_info_step([header |-> header, byte_offset |-> byte_offset,
                                     indices |-> mesh_indices, view_src |-> view_src],
                                    scene.meshes[i])
            IN  /\ header' = q.header
                /\ byte_offset' = q.byte_offset
                /\ mesh_indices' = q.indices
                /\ view_src' = q.view_src
                /\ i' = i + 1
                /\ pc' = pc
       ELSE /\ pc' = "write_image_info"
            /\ i' = 1
            /\ UNCHANGED <<header, byte_offset, mesh_indices, view_src>>
    /\ UNCHANGED <<scene, image_indices, material_indices, f, result>>

\* write_image_info: one image, or the return of (byte_offset, image_indices).
WriteImageInfo ==
    /\ pc = "write_image_info"
    /\ IF i <= Len(scene.images)
       THEN LET q == image_info_step([header |-> header, byte_offset |-> byte_offset,
                                      indices |-> image_indices, view_src |-> view_src],
                                     scene.images[i])
            IN  /\ header' = q.header
                /\ byte_offset' = q.byte_offset
                /\ image_indices' = q.indices
                /\ view_src' = q.view_src
                /\ i' = i + 1
                /\ pc' = pc
       ELSE /\ pc' = "write_material_info"
            /\ i' = 1
            /\ UNCHANGED <<header, byte_offset, image_indices, view_src>>
    /\ UNCHANGED <<scene, mesh_indices, material_indices, f, result>>

\* write_material_info: one material, or the return of material_indices.
WriteMaterialInfo ==
    /\ pc = "write_material_info"
    /\ IF i <= Len(scene.materials)
       THEN LET q == material_info_step([header |-> header, indices |-> material_indices,
                                          raised |-> NoError],
                                        scene.materials[i], image_indices)
            IN  /\ header' = q.header
                /\ material_indices' = q.indices
                /\ IF q.raised # NoError
                   THEN /\ result' = q.raised
                        /\ pc' = "done"
                        /\ i' = i
                   ELSE /\ i' = i + 1
                        /\ UNCHANGED <<pc, result>>
       ELSE /\ pc' = "write_object_info"
            /\ i' = 1
            /\ UNCHANGED <<header, material_indices, result>>
    /\ UNCHANGED <<scene, byte_offset, mesh_indices, image_indices, f, view_src>>

\* write_object_info: one object, or the return.
WriteObjectInfo ==
    /\ pc = "write_object_info"
    /\ IF i <= Len(scene.objects)
       THEN LET q == object_info_step([header |-> header,  raised |-> NoError],
                                      scene.objects[i], material_indices, mesh_indices)
            IN  /\ header' = q.header
                /\ IF q.raised # NoError
                   THEN /\ result' = q.raised
                        /\ pc' = "done"
                        /\ i' = i
                   ELSE /\ i' = i + 1
                        /\ UNCHANGED <<pc, result>>
       ELSE /\ pc' = "open"
            /\ i' = 1
            /\ UNCHANGED <<header, result>>
    /\ UNCHANGED <<scene, byte_offset, mesh_indices, image_indices, material_indices,
                   f, view_src>>

\* open(filepath, "wb"), then the length prefix and the header text.
WriteHeader ==
    /\ pc = "open"
    /\ f' = [opened |-> TRUE, closed |-> FALSE, header |-> header, payload |-> <<>>]
    /\ pc' = "write_mesh_buffers"
    /\ i' = 1
    /\ UNCHANGED <<scene, header, byte_offset, mesh_indices, image_indices,
                   material_indices, result, view_src>>

\* The mesh payload loop: one mesh, or the end of the loop.
WriteMeshBuffers ==
    /\ pc = "write_mesh_buffers"
    /\ IF i <= Len(scene.meshes)
       THEN /\ f' = [f EXCEPT !.payload = @ \o mesh_buffers(scene.meshes[i])]
            /\ i' = i + 1
            /\ pc' = pc
       ELSE /\ pc' = "write_image_buffers"
            /\ i' = 1
            /\ f' = f
    /\ UNCHANGED <<scene, header, byte_offset, mesh_indices, image_indices,
                   material_indices, result, view_src>>

\* The image payload loop: one image, or the end of the loop, where the file is
\* closed and FINISHED returned.
WriteImageBuffers ==
    /\ pc = "write_image_buffers"
    /\ IF i <= Len(scene.images)
       THEN /\ f' = [f EXCEPT !.payload = @ \o image_buffers(scene.images[i])]
            /\ i' = i + 1
            /\ UNCHANGED <<pc, result>>
       ELSE /\ f' = [f EXCEPT !.closed = TRUE]
            /\ result' = "FINISHED"
            /\ pc' = "done"
            /\ i' = i
    /\ UNCHANGED <<scene, header, byte_offset, mesh_indices, image_indices,
                   material_indices, view_src>>

Next ==
    \/ CheckMaterials
    \/ WriteMeshInfo
    \/ WriteImageInfo
    \/ WriteMaterialInfo
    \/ WriteObjectInfo
    \/ WriteHeader
    \/ WriteMeshBuffers
    \/ WriteImageBuffers

Spec == Init /\ [][Next]_vars

-----------------------------------------------------------------------------
(* Vocabulary of the properties.                                           *)

Range(s) == {s[k] : k \in DOMAIN s}

Done == pc = "done"

Finished == pc = "done" /\ result = "FINISHED"

\* Both planning passes have returned.
Planned ==
    \/ pc \in {"write_material_info", "write_object_info", "open",
               "write_mesh_buffers", "write_image_buffers"}
    \/ pc = "done" /\ result # "CANCELLED"

\* The views planned for a block, by position in header.buffer_views (0-based).
ViewsFor(name, attr) ==
    {k \in 0..(Len(view_src) - 1) : At(view_src, k) = <<name, attr>>}

\* The bytes of a block, each named by the block and its position in it.
BlockTags(b) == [j \in 1..BlockBytes(b) |-> <<b.src, j>>]

RECURSIVE PayloadTags(_)
PayloadTags(blocks) ==
    IF blocks = <<>> THEN <<>> ELSE BlockTags(Head(blocks)) \o PayloadTags(Tail(blocks))

RECURSIVE SumLengths(_)
SumLengths(views) ==
    IF views = <<>> THEN 0 ELSE Head(views).byte_length + SumLengths(Tail(views))

\* C1: in every exported file, the bytes at each view's range are the block
\* the view was planned for, and the payload is as long as the final planned
\* offset.
C1_PayloadMatchesViews ==
    Finished =>
        LET tags == PayloadTags(f.payload)
        IN  /\ Len(tags) = byte_offset
            /\ \A k \in DOMAIN header.buffer_views :
                 LET v == header.buffer_views[k]
                 IN  \A j \in 1..v.byte_length :
                       /\ v.byte_offset + j <= Len(tags)
                       /\ tags[v.byte_offset + j] = <<view_src[k], j>>

\* C5: the views tile the payload from offset 0 with no gap and no overlap, and
\* the running offset is the sum of the lengths of the views appended so far.
C5_ViewsTile ==
    /\ \A k \in DOMAIN header.buffer_views :
         header.buffer_views[k].byte_offset =
             IF k = 1 THEN 0
             ELSE header.buffer_views[k - 1].byte_offset
                  + header.buffer_views[k - 1].byte_length
    /\ byte_offset = SumLengths(header.buffer_views)

\* Mesh views of several lengths followed by an image view have been planned.
C5_Witness ==
    /\ Planned
    /\ Len(header.buffer_views) >= 5
    /\ header.buffer_views[Len(header.buffer_views)].type = "UINT_8"
    /\ \E k \in DOMAIN header.buffer_views :
         header.buffer_views[k].byte_offset > 0 /\ header.buffer_views[k].byte_length > 0

\* C2, as stated: a mesh with more than one material, used or not, makes the
\* export return CANCELLED with the file never opened and nothing planned.
C2_AnyMeshRejected ==
    (\E k \in DOMAIN scene.meshes : Len(scene.meshes[k].materials) > 1) =>
        /\ Done => result = "CANCELLED"
        /\ ~f.opened
        /\ f.payload = <<>>
        /\ header = EmptyHeader

\* C2, amended: a mesh with users and more than one material makes the export
\* return CANCELLED; the file is never opened and no header record, buffer
\* view or payload byte is produced.
C2_UsedMeshRejected ==
    (\E k \in DOMAIN scene.meshes :
        scene.meshes[k].users > 0 /\ Len(scene.meshes[k].materials) > 1) =>
        /\ Done => result = "CANCELLED"
        /\ pc \in {"check_materials", "done"}
        /\ ~f.opened
        /\ f.payload = <<>>
        /\ header = EmptyHeader
        /\ byte_offset = 0

\* The export was cancelled at the second mesh, after the first one passed.
C2_Witness ==
    /\ Done
    /\ result = "CANCELLED"
    /\ i = 2
    /\ Len(scene.meshes[1].materials) = 1

\* C3: a scene in which no mesh has more than one material is exported to the
\* end, with FINISHED returned.
C3_AlwaysFinishes ==
    (Done /\ \A k \in DOMAIN scene.meshes : Len(scene.meshes[k].materials) <= 1) =>
        result = "FINISHED"

\* C4: each view index of a mesh record refers to the view appended for that
\* mesh and that attribute, with that attribute's type.
C4_MeshRecordViews ==
    \A k \in DOMAIN header.meshes :
        LET rec == header.meshes[k]
            Refers(field, attr, type) ==
                /\ rec[field] \in 0..(Len(header.buffer_views) - 1)
                /\ At(view_src, rec[field]) = <<rec.name, attr>>
                /\ At(header.buffer_views, rec[field]).type = type
        IN  /\ Refers("positions", "positions", "VEC3_F32")
            /\ Refers("indices", "indices", "VEC3_U32")
            /\ "texcoords" \in DOMAIN rec => Refers("texcoords", "texcoords", "VEC2_F32")
            /\ "normals" \in DOMAIN rec => Refers("normals", "normals", "VEC3_F32")

-----------------------------------------------------------------------------
(* Properties of the deduplication and of the planned sizes.               *)

\* The number a float stands for, doubled: 0.0 and -0.0 are the same number.
NumValue(x) ==
    CASE x = PosZero -> 0 [] x = NegZero -> 0 [] x = Half -> 1 [] x = One -> 2

\* A tuple of floats by value.
NumTuple(t) == [k \in DOMAIN t |-> NumValue(t[k])]

\* The (vertex_index, uv, normal) triple of the corner at loop l, by value.
CornerValue(mesh, l) ==
    <<At(mesh.loops, l).vertex_index,
      IF mesh.uv_layers > 0 THEN NumTuple(At(mesh.uv_data, l)) ELSE <<>>,
      NumTuple(At(mesh.loops, l).normal)>>

UniqueCount(mesh) ==
    Cardinality({CornerValue(mesh, l) : l \in Range(Corners(mesh.loop_triangles))})

HasBlock(name, attr) == \E k \in DOMAIN f.payload : f.payload[k].src = <<name, attr>>

BlockOf(name, attr) ==
    f.payload[CHOOSE k \in DOMAIN f.payload : f.payload[k].src = <<name, attr>>]

BytesOf(name, attr) == IF HasBlock(name, attr) THEN BlockBytes(BlockOf(name, attr)) ELSE 0

\* The meshes whose buffers are in the file.
WrittenMeshes ==
    {k \in DOMAIN scene.meshes : HasBlock(scene.meshes[k].name, "positions")}

UsedMeshes == {k \in DOMAIN scene.meshes : scene.meshes[k].users > 0}

FirstAt(ids, id) == CHOOSE c \in DOMAIN ids : ids[c] = id /\ \A d \in 1..(c - 1) : ids[d] # id

ViewLayout(m, uv_views) ==
    LET OneView(attr, type, length) ==
            /\ Cardinality(ViewsFor(m.name, attr)) = 1
            /\ \A k \in ViewsFor(m.name, attr) :
                 /\ At(header.buffer_views, k).type = type
                 /\ At(header.buffer_views, k).byte_length = length
    IN  /\ OneView("positions", "VEC3_F32", UniqueCount(m) * 12)
        /\ OneView("indices", "VEC3_U32", 3 * Len(m.loop_triangles) * 4)
        /\ IF uv_views THEN OneView("texcoords", "VEC2_F32", UniqueCount(m) * 8)
           ELSE ViewsFor(m.name, "texcoords") = {}
        /\ Len(m.loop_triangles) >= 1 => OneView("normals", "VEC3_F32", UniqueCount(m) * 12)

\* C9, as stated: positions and indices views always, a texcoords view exactly
\* when the mesh has a uv layer, a normals view when it has a triangle.
C9_UvViewIffUvLayer ==
    Planned => \A x \in UsedMeshes :
        ViewLayout(scene.meshes[x], scene.meshes[x].uv_layers > 0)

\* C9, amended: positions and indices views always (of length zero for a mesh
\* with no triangle), a texcoords view exactly when the mesh has a uv layer and
\* at least one triangle, a normals view when it has a triangle.
C9_UvViewIffUvLayerAndTriangle ==
    Planned => \A x \in UsedMeshes :
        ViewLayout(scene.meshes[x], scene.meshes[x].uv_layers > 0
                                    /\ Len(scene.meshes[x].loop_triangles) >= 1)

\* Planned: a mesh with a uv layer and triangles, and one with a uv layer and none.
C9_Witness ==
    /\ Planned
    /\ \E x \in UsedMeshes :
         scene.meshes[x].uv_layers > 0 /\ Len(scene.meshes[x].loop_triangles) = 0
    /\ \E x \in UsedMeshes :
         /\ scene.meshes[x].uv_layers > 0
         /\ Len(scene.meshes[x].loop_triangles) >= 1
         /\ UniqueCount(scene.meshes[x]) < 3

RECURSIVE ViewBytesFrom(_, _)
ViewBytesFrom(name, k) ==
    IF k > Len(view_src) THEN 0
    ELSE (IF view_src[k][1] = name THEN header.buffer_views[k].byte_length ELSE 0)
         + ViewBytesFrom(name, k + 1)

\* C10: the four sizes compute_mesh_buffer_sizes returns for a mesh are the
\* bytes write_mesh_buffers emits for its positions, indices, uvs and normals,
\* in that order, and the views planned for the mesh add up to those bytes.
C10_SizesMatchBuffers ==
    \A x \in WrittenMeshes :
        LET m == scene.meshes[x] IN
        /\ compute_mesh_buffer_sizes(m)
             = <<BytesOf(m.name, "positions"), BytesOf(m.name, "indices"),
                 BytesOf(m.name, "texcoords"), BytesOf(m.name, "normals")>>
        /\ ViewBytesFrom(m.name, 1)
             = BytesOf(m.name, "positions") + BytesOf(m.name, "indices")
               + BytesOf(m.name, "texcoords") + BytesOf(m.name, "normals")
        /\ \E k \in DOMAIN f.payload :
             LET attrs == IF m.uv_layers > 0
                          THEN <<"positions", "indices", "texcoords", "normals">>
                          ELSE <<"positions", "indices", "normals">>
             IN  \A j \in DOMAIN attrs :
                   /\ k + j - 1 <= Len(f.payload)
                   /\ f.payload[k + j - 1].src = <<m.name, attrs[j]>>

\* Written: a mesh with no uv layer, and a mesh with a uv layer and no triangle.
C10_Witness ==
    /\ Finished
    /\ \E x \in WrittenMeshes :
         scene.meshes[x].uv_layers = 0 /\ Len(scene.meshes[x].loop_triangles) >= 1
    /\ \E x \in WrittenMeshes :
         scene.meshes[x].uv_layers > 0 /\ Len(scene.meshes[x].loop_triangles) = 0

-----------------------------------------------------------------------------
(* Zero-user filtering: the export of a scene against the export of the    *)
(* same scene with its unused meshes and images taken out.                 *)

WithoutUnused(data) == SelectSeq(data, LAMBDA x : x.users > 0)

RECURSIVE PlanMeshes(_, _)
PlanMeshes(p, meshes) ==
    IF meshes = <<>> THEN p
    ELSE PlanMeshes(mesh_info_step(p, Head(meshes)), Tail(meshes))

RECURSIVE PlanImages(_, _)
PlanImages(p, images) ==
    IF images = <<>> THEN p
    ELSE PlanImages(image_info_step(p, Head(images)), Tail(images))

RECURSIVE MeshPayload(_)
MeshPayload(meshes) ==
    IF meshes = <<>> THEN <<>>
    ELSE mesh_buffers(Head(meshes)) \o MeshPayload(Tail(meshes))

RECURSIVE ImagePayload(_)
ImagePayload(images) ==
    IF images = <<>> THEN <<>>
    ELSE image_buffers(Head(images)) \o ImagePayload(Tail(images))

\* What the two planning passes return for the given meshes and images.
PlanOf(meshes, images) ==
    LET pm == PlanMeshes([header |-> EmptyHeader, byte_offset |-> 0,
                          indices |-> EmptyDict, view_src |-> <<>>], meshes)
        pi == PlanImages([pm EXCEPT !.indices = EmptyDict], images)
    IN  [header |-> pi.header, byte_offset |-> pi.byte_offset,
         mesh_indices |-> pm.indices, image_indices |-> pi.indices]

Names(records) == {records[k].name : k \in DOMAIN records}

\* C8: an unused mesh or image has no record, no view and no payload bytes, and
\* the records, views, offsets, indices and payload of the export are those of
\* the scene without its unused meshes and images.
C8_UnusedLeaveNoTrace ==
    /\ \A name \in Names(scene.meshes) \cup Names(scene.images) :
         (\/ \E k \in DOMAIN scene.meshes :
                scene.meshes[k].name = name /\ scene.meshes[k].users = 0
          \/ \E k \in DOMAIN scene.images :
                scene.images[k].name = name /\ scene.images[k].users = 0) =>
            /\ name \notin Names(header.meshes) \cup Names(header.images)
            /\ name \notin (DOMAIN mesh_indices) \cup (DOMAIN image_indices)
            /\ \A k \in DOMAIN view_src : view_src[k][1] # name
            /\ \A k \in DOMAIN f.payload : f.payload[k].src[1] # name
    /\ Planned =>
         LET plan == PlanOf(WithoutUnused(scene.meshes), WithoutUnused(scene.images))
         IN  /\ header.meshes = plan.header.meshes
             /\ header.images = plan.header.images
             /\ header.buffer_views = plan.header.buffer_views
             /\ byte_offset = plan.byte_offset
             /\ mesh_indices = plan.mesh_indices
             /\ image_indices = plan.image_indices
    /\ Finished =>
         f.payload = MeshPayload(WithoutUnused(scene.meshes))
                     \o ImagePayload(WithoutUnused(scene.images))

\* An export finished whose first mesh and first image are unused and whose
\* second mesh and second image are exported.
C8_Witness ==
    /\ Finished
    /\ Len(scene.meshes) = 2
    /\ scene.meshes[1].users = 0
    /\ scene.meshes[2].users > 0
    /\ Len(header.meshes) = 1
    /\ Len(scene.images) = 2
    /\ scene.images[1].users = 0
    /\ Len(header.images) = 1
    /\ header.images[1].name = scene.images[2].name
    /\ Len(f.payload) >= 4

====
